---- MODULE Spec2Model ----
(***************************************************************************)
(* Generator -> Strategy -> Trader publish/subscribe pipeline of           *)
(* TradingStrategyDemo / GeoAlpha, as a state machine.                     *)
(*                                                                         *)
(* The program runs on one asyncio event loop.  A step of the model is one *)
(* piece of code that runs without suspension: a call of the public API,   *)
(* one step of a Generator's periodic task, or - inside a notification     *)
(* pass - the invocation of one subscriber callback.  A pass in progress   *)
(* is a frame on `stack`; a user callback that has been invoked and has    *)
(* not yet returned is flagged by `incb`, and may itself make one          *)
(* synchronous API call before it returns or raises.                       *)
(***************************************************************************)
EXTENDS Integers, Sequences, FiniteSets, TLC

\* ------------------------------------------------------------------ bounds
MaxSubs     == 2   \* user subscriptions one node holds, and handles it has out
MaxPipeSubs == 1   \* the same, in the runs of the whole pipeline (PipeSpec)
MaxTasks    == 3   \* periodic tasks ever created for one Generator
MaxTime     == 1   \* the clock time.time() saturates here
MaxCalls    == 6   \* direct calls made on one decision function instance
MaxPending  == 2   \* coroutines of subscribers scheduled and not yet finished

\* ------------------------------------------------------------- the topology
Generators == {"g1", "g2"}          \* Generator.id
Strategies == {"s1", "s2", "s3"}    \* Strategy.id
Users      == {"u1", "u2"}          \* user-supplied subscriber callables
Callers    == {"c1", "c2"}          \* coroutines that await Generator.stop()
Values     == {4, 8}                \* prices a tick may produce
InitialPrice == 4                   \* Generator(initial_price=...)
NegInf     == -99                   \* float("-inf"): below every other number
StopDistance == 2                   \* trailing_stop_sell(stop_distance=...)
Distances  == {0, StopDistance}     \* stop distances of the instances called directly
CallValues == {16, 20, 22, 23}      \* values passed in direct calls
\* the nonempty lists passed in direct calls
CallLists  == {<<v>> : v \in CallValues} \cup
              {<<a, b>> : a \in CallValues, b \in CallValues}
\* the lists and the fractions p/q (as <<p, q>>) trimmed_mean is called with;
\* every value is a multiple of 60, so that a mean of up to five is a whole number
TrimValues == {0, 60, 120, 600}
TrimLists  == UNION {[1..n -> TrimValues] : n \in 1..5}
TrimFractions == {<<0, 1>>, <<1, 10>>, <<1, 4>>, <<2, 5>>, <<1, 2>>, <<3, 5>>, <<1, 1>>,
                  <<2, 1>>}
Nodes      == Generators \cup Strategies
NoTask     == 0                     \* Generator._task is None
Idle       == [g |-> "-", t |-> 0]  \* a caller that is not inside stop()

VARIABLES
    subscribers,       \* Generator._subscribers / Strategy._subscribers
    running,           \* Generator._running
    task,              \* Generator._task (an id, or NoTask)
    tstate,            \* per Generator and task id: where that task is
    price,             \* Generator._price
    generator_unsub,   \* Strategy._generator_unsub (generator id -> closure)
    latest_values,     \* Strategy._latest_values
    strategy_unsub,    \* Trader._strategy_unsub
    latest_decisions,  \* Trader._latest_decisions
    stack,             \* notification passes in progress, innermost last
    incb,              \* a user callback is executing
    now,               \* time.time()
    awaiting,          \* per caller: the task its stop() awaits
    pending,           \* the tasks asyncio.create_task(maybe_coro) made that have
                       \* not finished
    decision_fn,       \* Strategy._decision_fn
    fn_state,          \* the nonlocal of the Strategy's decision function instance:
                       \* max_seen's max_value, trailing_stop_sell's trailing_stop
    trace,             \* the direct calls made on decision function instances
    inv,               \* what the last step did: the callback invocation it made,
                       \* that it was an attach call that found the id attached
                       \* or a detach call that found it absent, that it was a
                       \* shutdown call repeated,
                       \* or the direct call of a decision function it made
    rep,               \* the line the Trader printed in the last step
    handles,           \* ghost: per node and callable, the subscriptions that
                       \* stand (live) and whether a handle was ever invoked (spent)
    stopped,           \* ghost: a stop() has returned and start() was not called since
    detached,          \* ghost: detach returned and no attach followed
    shut,              \* ghost: "no": never shut down; "shut": shutdown returned and
                       \* no attach/subscribe call followed; "revived": one followed
    since,             \* ghost: per Strategy, the latest value of each attached
                       \* Generator that has notified it since it was attached
    tsince,            \* ghost: the same for the Trader and its Strategies
    received           \* ghost: per Generator and user callable, for the latest tick:
                       \* NotDue (the callable was not subscribed when the tick
                       \* began), Due (subscribed, not invoked yet) or the value
                       \* it was last invoked with

vars == <<subscribers, running, task, tstate, price, generator_unsub,
          latest_values, strategy_unsub, latest_decisions, stack, incb, now,
          awaiting, pending, decision_fn, fn_state, trace, inv, rep, handles, stopped,
          detached, shut, since, tsince, received>>

srcVars  == <<running, task, tstate, awaiting, stopped, pending>>
\* values of `received` that are not prices
NotDue   == 0
Due      == 1
fnVars   == <<decision_fn, fn_state, trace>>
pipeVars == <<generator_unsub, latest_values, strategy_unsub, latest_decisions,
              detached, shut, fnVars, since, tsince>>

\* ---------------------------------------------------------------- helpers
Trader == "t"
None   == [kind |-> "none"]
Empty  == [x \in {} |-> 0]             \* {} as a dict

UserCb(u)     == [kind |-> "user", who |-> u, src |-> "-"]
\* the closure _on_value made by s.attach_generator(g)
OnValue(s, g) == [kind |-> "on_value", who |-> s, src |-> g]
\* the closure _on_decision made by trader.attach_strategy(s)
OnDecision(s) == [kind |-> "on_decision", who |-> Trader, src |-> s]

Range(q) == {q[i] : i \in DOMAIN q}
Count(q, x) == Cardinality({i \in DOMAIN q : q[i] = x})
UserCount(q) == Cardinality({i \in DOMAIN q : q[i].kind = "user"})

\* a store that keeps the value a key already has: the fault C18 is measured
\* against
KeepFirst(d, k, v) == [x \in DOMAIN d \cup {k} |-> IF x \in DOMAIN d THEN d[x] ELSE v]

\* dict.pop(k, None) and dict[k] = v
DictPop(d, k)    == [x \in DOMAIN d \ {k} |-> d[x]]
DictSet(d, k, v) == [x \in DOMAIN d \cup {k} |-> IF x = k THEN v ELSE d[x]]

RECURSIVE SumOver(_, _)
SumOver(d, ks) ==
    IF ks = {} THEN 0
    ELSE LET k == CHOOSE x \in ks : TRUE IN d[k] + SumOver(d, ks \ {k})

\* list.append(fn)
Append1(q, fn) == Append(q, fn)

\* a handle that removes nothing: the fault C10 is measured against
RemoveNothing(q, fn) == q

\* the unsubscribe handle: list.remove(fn) takes out the first entry equal to
\* fn; ValueError (no such entry) is swallowed
RemoveFirst(q, fn) ==
    IF \E i \in DOMAIN q : q[i] = fn
    THEN LET i == CHOOSE j \in DOMAIN q :
                      q[j] = fn /\ \A k \in 1..(j - 1) : q[k] # fn
         IN  SubSeq(q, 1, i - 1) \o SubSeq(q, i + 1, Len(q))
    ELSE q

\* ------------------------------------------------------- decision and report
\* A list of values is a function with a finite domain: a dict's values by
\* key, or a sequence.  Numbers are integers; the prices and stop distances
\* are chosen so that every quotient below is exact.

\* float addition and halving, where an operand may be float("-inf")
Plus(a, b) == IF a = NegInf \/ b = NegInf THEN NegInf ELSE a + b
Half(a) == IF a = NegInf THEN NegInf ELSE a \div 2

RECURSIVE MaxOver(_, _)
MaxOver(d, ks) ==
    IF ks = {} THEN NegInf
    ELSE LET k == CHOOSE x \in ks : TRUE
             m == MaxOver(d, ks \ {k})
         IN  IF d[k] > m THEN d[k] ELSE m
\* max(values)
MaxOf(d) == MaxOver(d, DOMAIN d)

\* sum(vals) / len(vals)
Mean(d) == SumOver(d, DOMAIN d) \div Cardinality(DOMAIN d)

\* the decision functions a Strategy is constructed with
MeanFn        == [kind |-> "mean", stop_distance |-> 0]
MaxSeenFn     == [kind |-> "max_seen", stop_distance |-> 0]
TrailingFn(d) == [kind |-> "trailing_stop_sell", stop_distance |-> d]
\* a decision_fn supplied by the user: it returns max(values), or it raises
UnreliableFn  == [kind |-> "unreliable", stop_distance |-> 0]
\* the Strategies as main_demo constructs them
DemoFns ==
    [s \in Strategies |-> CASE s = "s1" -> MeanFn
                            [] s = "s2" -> MaxSeenFn
                            [] OTHER    -> TrailingFn(StopDistance)]

\* a maximum of the current values only, with no memory: the fault C12 is
\* measured against
MaxCurrent(st, vals) == IF DOMAIN vals = {} THEN st ELSE MaxOf(vals)

\* a maximum that an empty list resets: the fault C21 is measured against
MaxForgetful(st, vals) ==
    IF DOMAIN vals = {} THEN NegInf
    ELSE IF MaxOf(vals) > st THEN MaxOf(vals) ELSE st

\* max_seen()._fn: the new max_value, which is also the value returned
MaxSeen(st, vals) ==
    IF DOMAIN vals = {} THEN st
    ELSE IF MaxOf(vals) > st THEN MaxOf(vals) ELSE st

\* a level that is never reset: the fault C19 is measured against
TrailingNoSell(d, st, vals) ==
    LET current_val == MaxOf(vals)
        initialised == IF st = NegInf THEN current_val - d ELSE st
    IN  IF current_val > initialised + d THEN current_val - d ELSE initialised

\* a level that follows the current value down as well as up: the fault C20
\* is measured against
TrailingFollow(d, st, vals) ==
    IF st # NegInf /\ MaxOf(vals) < st THEN NegInf ELSE MaxOf(vals) - d

\* a level that is set once and never raised: the fault C32 is measured
\* against
TrailingFixed(d, st, vals) ==
    LET current_val == MaxOf(vals)
        initialised == IF st = NegInf THEN current_val - d ELSE st
    IN  IF current_val < initialised THEN NegInf ELSE initialised

\* trailing_stop_sell(d)._fn on nonempty values: the new trailing_stop, which
\* is also the value returned
TrailingStopSell(d, st, vals) ==
    LET current_val == MaxOf(vals)
        initialised == IF st = NegInf THEN current_val - d ELSE st
        raised      == IF current_val > initialised + d THEN current_val - d
                       ELSE initialised
    IN  IF current_val < raised THEN NegInf ELSE raised

\* one function instance given to every Strategy: the fault C28 is measured
\* against
SharedInstance(s) == "s2"

\* the decision function instance Strategy s is constructed with, named after
\* it: every Strategy of main_demo gets the result of a factory call of its own
Instance(s) == s

\* the outcomes a call of fn may have: only the user's function may raise on
\* nonempty values
MayFail(fn) == IF fn.kind = "unreliable" THEN BOOLEAN ELSE {FALSE}

\* one call fn(vals) with the instance's nonlocal at st: whether it raised,
\* the value it returned, and the nonlocal after the call
FnApply(fn, st, vals, fails) ==
    CASE fn.kind = "mean" ->
            IF DOMAIN vals = {} THEN [raised |-> TRUE, value |-> NegInf, state |-> st]
            ELSE [raised |-> FALSE, value |-> Mean(vals), state |-> st]
      [] fn.kind = "max_seen" ->
            [raised |-> FALSE, value |-> MaxSeen(st, vals), state |-> MaxSeen(st, vals)]
      [] fn.kind = "trailing_stop_sell" ->
            IF DOMAIN vals = {} THEN [raised |-> TRUE, value |-> NegInf, state |-> st]
            ELSE [raised |-> FALSE,
                  value  |-> TrailingStopSell(fn.stop_distance, st, vals),
                  state  |-> TrailingStopSell(fn.stop_distance, st, vals)]
      [] OTHER ->
            IF fails \/ DOMAIN vals = {}
            THEN [raised |-> TRUE, value |-> NegInf, state |-> st]
            ELSE [raised |-> FALSE, value |-> MaxOf(vals), state |-> st]

\* the decision that raises is lost with its exception: the fault C15 is
\* measured against
DecisionUnguarded(vals, r) == r.value

\* Strategy._produce_decision lines 81-85: the result r of the decision_fn,
\* or the arithmetic mean of the same values when it raised
Decision(vals, r) == IF r.raised THEN Mean(vals) ELSE r.value

RECURSIVE SortedValues(_, _)
\* sorted(list(d.values())), over the keys ks
SortedValues(d, ks) ==
    IF ks = {} THEN <<>>
    ELSE LET k == CHOOSE x \in ks : \A y \in ks : d[x] <= d[y]
         IN  <<d[k]>> \o SortedValues(d, ks \ {k})

\* a mean that drops the k lowest values only: the fault C27 is measured
\* against
TrimLowOnly(vals, p, q) ==
    LET n == Len(vals)
        k == (n * p) \div q
        sorted_vals == SortedValues(vals, DOMAIN vals)
        trimmed == SubSeq(sorted_vals, k + 1, n)
    IN  IF 2 * k >= n THEN SumOver(vals, DOMAIN vals) \div n
        ELSE SumOver(trimmed, DOMAIN trimmed) \div Len(trimmed)

\* trimmed_mean(values, trim_fraction) on nonempty values, trim_fraction
\* being p/q
TrimmedMean(vals, p, q) ==
    LET n == Len(vals)
        k == (n * p) \div q
        sorted_vals == SortedValues(vals, DOMAIN vals)
        trimmed == SubSeq(sorted_vals, k + 1, n - k)
    IN  IF 2 * k >= n THEN SumOver(vals, DOMAIN vals) \div n
        ELSE SumOver(trimmed, DOMAIN trimmed) \div Len(trimmed)

\* statistics.median: the middle value, or the mean of the two middle values
Median(d) ==
    LET q == SortedValues(d, DOMAIN d)
        n == Len(q)
    IN  IF n % 2 = 1 THEN q[(n + 1) \div 2]
        ELSE Half(Plus(q[n \div 2], q[n \div 2 + 1]))

\* ------------------------------------------------------------------- frames
\* One notification pass: `for sub in list(self._subscribers)` of node, for
\* the event (node, value, ts).  snap is the copy the loop iterates, idx the
\* loop's position.  log (the invocations made), raisedAt (the position of the
\* last callback of the pass that raised, 0: none), det (the downstream
\* nodes that had detached from node when the pass began, and have not
\* attached since) and reps (the lines the Trader printed during the pass) are
\* history.  A Strategy's pass also records the values its decision was
\* computed from (vals), the Generators attached (att) and the values of
\* `since` (want) at that moment, and whether the decision_fn raised (fell).
Frame(n, t, v, ts) ==
    [node |-> n, task |-> t, snap |-> subscribers[n], idx |-> 1,
     value |-> v, ts |-> ts, log |-> <<>>, raisedAt |-> 0,
     det |-> {d \in Strategies \cup {Trader} : n \in detached[d]},
     reps |-> <<>>, vals |-> Empty, att |-> {}, want |-> Empty, fell |-> FALSE]

Top == stack[Len(stack)]
Pop(st) == SubSeq(st, 1, Len(st) - 1)
SetTop(st, f) == [st EXCEPT ![Len(st)] = f]

\* the loop iterating the list itself, not a copy of it: the fault C7 is
\* measured against
RemainingLive(f) == SubSeq(subscribers[f.node], f.idx, Len(subscribers[f.node]))

\* what the loop has still to invoke: the rest of the snapshot
Remaining(f) == SubSeq(f.snap, f.idx, Len(f.snap))

\* the try statement enclosing the loop, not the one call: the fault C1 is
\* measured against
AbortLoop(f) == [f EXCEPT !.raisedAt = f.idx - 1, !.idx = Len(f.snap) + 1]

\* `except Exception: pass` around one callback: the loop goes on
Caught(f) == [f EXCEPT !.raisedAt = f.idx - 1]

\* a call that passes the price the Generator was constructed with, not the
\* tick's: the fault C26 is measured against
CallInitial(f, cb) == [cb |-> cb, id |-> f.node, value |-> InitialPrice, ts |-> f.ts]

\* sub(self.id, value, ts)
Call(f, cb) == [cb |-> cb, id |-> f.node, value |-> f.value, ts |-> f.ts]
Invocation(f, cb) == [kind |-> "call", call |-> Call(f, cb), det |-> f.det]

\* the loop takes its next callback
Advance(f) == [f EXCEPT !.idx = @ + 1, !.log = Append(@, Call(f, Head(Remaining(f))))]

\* an event loop that runs a coroutine step in the middle of synchronous
\* code: the fault C22 is measured against
Preempting == TRUE

\* no synchronous code is running: the event loop may run a coroutine step
AtLoop == stack = <<>> /\ ~incb
\* a synchronous API call can be made: from a coroutine, or from the body of
\* the user callback that is executing
CanCall == stack = <<>> \/ incb

Quiet == inv' = None /\ rep' = None
\* an attach call of node d returned at once
Again(d) == [kind |-> "again", who |-> d]
\* a shutdown call of node d, which no attach or subscribe call has been made
\* on since its last shutdown returned
Repeated(d) == [kind |-> "repeated", who |-> d]
\* a detach call of node d found the id of n absent from its map
Unknown(d, n) == [kind |-> "unknown", who |-> d, src |-> n]

\* history: an attach or subscribe call on a node
Revived(x) == IF x = "no" THEN "no" ELSE "revived"

\* `gen.id in self._generator_unsub` and `strategy.id in self._strategy_unsub`
Attached(s, g) == g \in DOMAIN generator_unsub[s]
TAttached(s) == s \in DOMAIN strategy_unsub

\* an attach that never finds the id in the map: the fault C14 is measured
\* against
NeverAttached(s, g) == FALSE

\* the test attach_generator begins with
AlreadyAttached(s, g) == Attached(s, g)

\* ----------------------------------------------------------------- Init
\* the state after construction, the Strategies having the decision functions fns
Constructed(fns) ==
    /\ subscribers = [n \in Nodes |-> <<>>]
    /\ running = [g \in Generators |-> FALSE]
    /\ task = [g \in Generators |-> NoTask]
    /\ tstate = [g \in Generators |-> [t \in 1..MaxTasks |-> "none"]]
    /\ price = [g \in Generators |-> InitialPrice]
    /\ generator_unsub = [s \in Strategies |-> Empty]
    /\ latest_values = [s \in Strategies |-> Empty]
    /\ strategy_unsub = Empty
    /\ latest_decisions = Empty
    /\ stack = <<>>
    /\ incb = FALSE
    /\ now = 0
    /\ awaiting = [c \in Callers |-> Idle]
    /\ pending = 0
    /\ inv = None
    /\ rep = None
    /\ handles = [n \in Nodes |-> [u \in Users |-> [live |-> 0, spent |-> FALSE]]]
    /\ stopped = [g \in Generators |-> FALSE]
    /\ detached = [d \in Strategies \cup {Trader} |-> {}]
    /\ shut = [d \in Strategies \cup {Trader} |-> "no"]
    /\ decision_fn = fns
    /\ fn_state = [s \in Strategies |-> NegInf]
    /\ trace = <<>>
    /\ since = [s \in Strategies |-> Empty]
    /\ tsince = Empty
    /\ received = [g \in Generators |-> [u \in Users |-> NotDue]]

\* the program as main_demo constructs it
Init == Constructed(DemoFns)

\* ------------------------------------------------------ subscription broker
\* handles of node n that have never been invoked
LiveHandles(n) == SumOver([u \in Users |-> handles[n][u].live], Users)

\* node.subscribe(fn) for a user callable
Subscribe(n, u) ==
    /\ CanCall
    /\ UserCount(subscribers[n]) < MaxSubs
    /\ LiveHandles(n) < MaxSubs
    /\ subscribers' = [subscribers EXCEPT ![n] = Append1(@, UserCb(u))]
    /\ handles' = [handles EXCEPT ![n][u].live = @ + 1]
    /\ shut' = IF n \in Strategies THEN [shut EXCEPT ![n] = Revived(@)] ELSE shut
    /\ incb' = FALSE
    /\ Quiet
    /\ UNCHANGED <<received, srcVars, price, generator_unsub, latest_values, strategy_unsub,
                   latest_decisions, detached, stack, now, fnVars, since, tsince>>

\* a handle returned by node.subscribe(fn) is invoked; fresh: for the first time
Unsubscribe(n, u, fresh) ==
    /\ CanCall
    /\ IF fresh THEN handles[n][u].live > 0 ELSE handles[n][u].spent
    /\ subscribers' = [subscribers EXCEPT ![n] = RemoveFirst(@, UserCb(u))]
    /\ handles' = IF fresh
                  THEN [handles EXCEPT ![n][u] = [live |-> @.live - 1, spent |-> TRUE]]
                  ELSE handles
    /\ incb' = FALSE
    /\ Quiet
    /\ UNCHANGED <<received, srcVars, price, pipeVars, stack, now>>

\* ------------------------------------------------------------ the Generator
\* one iteration of `while self._running` up to the first callback: the new
\* price (any value: the price rule is outside the model) and the snapshot
Tick(g, t) ==
    /\ \E v \in Values :
          /\ price' = [price EXCEPT ![g] = v]
          /\ stack' = <<Frame(g, t, v, now)>>
    /\ now' = IF now < MaxTime THEN now + 1 ELSE now
    /\ tstate' = [tstate EXCEPT ![g][t] = "ticking"]
    /\ received' = [received EXCEPT ![g] =
                        [u \in Users |-> IF UserCb(u) \in Range(subscribers[g])
                                         THEN Due ELSE NotDue]]

\* the id start() gives the task it creates
FreshTask(g) == CHOOSE t \in 1..MaxTasks :
                    tstate[g][t] = "none" /\ \A k \in 1..(t - 1) : tstate[g][k] # "none"

\* Generator.start
Start(g) ==
    /\ CanCall
    /\ IF task[g] # NoTask /\ tstate[g][task[g]] # "done"
       THEN UNCHANGED <<task, tstate>>
       ELSE /\ \E t \in 1..MaxTasks : tstate[g][t] = "none"
            /\ task' = [task EXCEPT ![g] = FreshTask(g)]
            /\ tstate' = [tstate EXCEPT ![g][FreshTask(g)] = "new"]
    /\ stopped' = [stopped EXCEPT ![g] = FALSE]
    /\ incb' = FALSE
    /\ Quiet
    /\ UNCHANGED <<received, pending, subscribers, running, price, pipeVars, stack,
                   now, awaiting, handles>>

\* the first step of the task start() created: _run up to the first callback
TaskFirst(g, t) ==
    /\ AtLoop
    /\ tstate[g][t] = "new"
    /\ running' = [running EXCEPT ![g] = TRUE]
    /\ Tick(g, t)
    /\ Quiet
    /\ UNCHANGED <<pending, subscribers, task, pipeVars, incb, awaiting, handles,
                   stopped>>

\* asyncio.sleep(interval) is over: the loop test, then the next iteration or
\* the finally clause and the task's end
TaskWake(g, t) ==
    /\ AtLoop
    /\ tstate[g][t] = "sleeping"
    /\ IF running[g]
       THEN /\ Tick(g, t)
            /\ UNCHANGED running
       ELSE /\ running' = [running EXCEPT ![g] = FALSE]
            /\ tstate' = [tstate EXCEPT ![g][t] = "done"]
            /\ UNCHANGED <<price, stack, now, received>>
    /\ Quiet
    /\ UNCHANGED <<pending, subscribers, task, pipeVars, incb, awaiting, handles,
                   stopped>>

\* a stop() after which the Strategies no longer hold the Generator's value:
\* the fault C31 is measured against
StopAndForget(c, g) ==
    /\ AtLoop
    /\ awaiting[c] = Idle
    /\ running' = [running EXCEPT ![g] = FALSE]
    /\ IF task[g] = NoTask
       THEN /\ stopped' = [stopped EXCEPT ![g] = TRUE]
            /\ UNCHANGED <<task, awaiting>>
       ELSE IF tstate[g][task[g]] = "done"
       THEN /\ task' = [task EXCEPT ![g] = NoTask]
            /\ stopped' = [stopped EXCEPT ![g] = TRUE]
            /\ UNCHANGED awaiting
       ELSE /\ awaiting' = [awaiting EXCEPT ![c] = [g |-> g, t |-> task[g]]]
            /\ UNCHANGED <<task, stopped>>
    /\ latest_values' = [s \in Strategies |-> DictPop(latest_values[s], g)]
    /\ Quiet
    /\ UNCHANGED <<received, pending, subscribers, tstate, price, generator_unsub,
                   strategy_unsub, latest_decisions, detached, shut, fnVars, since,
                   tsince, stack, incb, now, handles>>

\* Generator.stop up to `await self._task`; awaiting a finished task does not
\* suspend
Stop(c, g) ==
    /\ AtLoop
    /\ awaiting[c] = Idle
    /\ running' = [running EXCEPT ![g] = FALSE]
    /\ IF task[g] = NoTask
       THEN /\ stopped' = [stopped EXCEPT ![g] = TRUE]
            /\ UNCHANGED <<task, awaiting>>
       ELSE IF tstate[g][task[g]] = "done"
       THEN /\ task' = [task EXCEPT ![g] = NoTask]
            /\ stopped' = [stopped EXCEPT ![g] = TRUE]
            /\ UNCHANGED awaiting
       ELSE /\ awaiting' = [awaiting EXCEPT ![c] = [g |-> g, t |-> task[g]]]
            /\ UNCHANGED <<task, stopped>>
    /\ Quiet
    /\ UNCHANGED <<received, pending, subscribers, tstate, price, pipeVars, stack,
                   incb, now, handles>>

\* the awaited task has ended: stop() resumes, clears _task and returns
StopResume(c) ==
    /\ AtLoop
    /\ awaiting[c] # Idle
    /\ tstate[awaiting[c].g][awaiting[c].t] = "done"
    /\ task' = [task EXCEPT ![awaiting[c].g] = NoTask]
    /\ stopped' = [stopped EXCEPT ![awaiting[c].g] = TRUE]
    /\ awaiting' = [awaiting EXCEPT ![c] = Idle]
    /\ Quiet
    /\ UNCHANGED <<received, pending, subscribers, running, tstate, price, pipeVars,
                   stack, incb, now, handles>>

\* ------------------------------------------------------- notification passes
\* a loop that awaits the coroutine a callback returned, and is held up while
\* scheduled work is unfinished: the fault C23 is measured against
HeldUp == pending > 0

\* asyncio.create_task(maybe_coro) is not awaited: the loop is never
\* suspended by the work its callbacks returned
Suspended == FALSE

Delivering(kind) ==
    /\ stack # <<>>
    /\ ~incb
    /\ ~Suspended
    /\ Remaining(Top) # <<>>
    /\ Head(Remaining(Top)).kind = kind
    /\ inv' = Invocation(Top, Head(Remaining(Top)))

\* the loop invokes a user callable, which starts to execute
DeliverUser ==
    /\ Delivering("user")
    /\ stack' = SetTop(stack, Advance(Top))
    /\ incb' = TRUE
    /\ rep' = None
    /\ received' = IF Top.node \in Generators
                   THEN [received EXCEPT ![Top.node][Head(Remaining(Top)).who] =
                                             inv'.call.value]
                   ELSE received
    /\ UNCHANGED <<subscribers, srcVars, price, pipeVars, now, handles>>

\* the user callable returns (a coroutine it returns is scheduled, not awaited)
CbReturn ==
    /\ incb
    /\ incb' = FALSE
    /\ Quiet
    /\ UNCHANGED <<received, subscribers, srcVars, price, pipeVars, stack, now, handles>>

\* the user callable returns a coroutine: asyncio.create_task(maybe_coro)
\* schedules it as a task of its own and the loop goes on
CbDefer ==
    /\ incb
    /\ pending < MaxPending
    /\ incb' = FALSE
    /\ pending' = pending + 1
    /\ Quiet
    /\ UNCHANGED <<received, subscribers, running, task, tstate, awaiting, stopped, price,
                   pipeVars, stack, now, handles>>

\* a scheduled coroutine runs its last step
CoroDone ==
    /\ AtLoop
    /\ pending > 0
    /\ pending' = pending - 1
    /\ Quiet
    /\ UNCHANGED <<received, subscribers, running, task, tstate, awaiting, stopped, price,
                   pipeVars, stack, incb, now, handles>>

\* the user callable raises an Exception
CbRaise ==
    /\ incb
    /\ incb' = FALSE
    /\ stack' = SetTop(stack, Caught(Top))
    /\ Quiet
    /\ UNCHANGED <<received, subscribers, srcVars, price, pipeVars, now, handles>>

\* Strategy._produce_decision, from the cache as _on_value has just written it:
\* nothing on an empty cache, else the decision (r is the outcome of the call
\* of the decision_fn) and the pass to the subscribers
ProduceDecision(st, s, lv, w, ts, r) ==
    IF DOMAIN lv = {} THEN st
    ELSE Append(st, [Frame(s, NoTask, Decision(lv, r), ts)
                        EXCEPT !.vals = lv, !.att = DOMAIN generator_unsub[s],
                               !.want = w, !.fell = r.raised])

\* the loop invokes a Strategy's _on_value closure
DeliverOnValue ==
    /\ Delivering("on_value")
    /\ LET s  == Head(Remaining(Top)).who
           lv == DictSet(latest_values[s], Top.node, Top.value)
           w  == IF Attached(s, Top.node) THEN DictSet(since[s], Top.node, Top.value)
                 ELSE since[s]
       IN  /\ latest_values' = [latest_values EXCEPT ![s] = lv]
           /\ since' = [since EXCEPT ![s] = w]
           /\ \E fails \in MayFail(decision_fn[s]) :
                 LET r == FnApply(decision_fn[s], fn_state[Instance(s)], lv, fails)
                 IN  /\ fn_state' = [fn_state EXCEPT ![Instance(s)] = r.state]
                     /\ stack' = ProduceDecision(SetTop(stack, Advance(Top)), s, lv, w,
                                                 Top.ts, r)
    /\ rep' = None
    /\ UNCHANGED <<received, subscribers, srcVars, price, generator_unsub, strategy_unsub,
                   latest_decisions, detached, shut, incb, now, handles,
                   decision_fn, trace, tsince>>

\* Trader._emit_median: the printed line
Report(ld, ts) ==
    IF DOMAIN ld = {} THEN None
    ELSE [kind |-> "report", n |-> Cardinality(DOMAIN ld), med |-> Median(ld), ts |-> ts]

\* the loop invokes the Trader's _on_decision closure
DeliverOnDecision ==
    /\ Delivering("on_decision")
    /\ latest_decisions' = DictSet(latest_decisions, Top.node, Top.value)
    /\ tsince' = IF TAttached(Top.node) THEN DictSet(tsince, Top.node, Top.value)
                 ELSE tsince
    /\ rep' = Report(latest_decisions', Top.ts)
    /\ stack' = [SetTop(stack, Advance(Top)) EXCEPT ![1].reps = Append(@, rep')]
    /\ UNCHANGED <<received, subscribers, srcVars, price, generator_unsub, latest_values,
                   strategy_unsub, detached, shut, incb, now, handles, fnVars, since>>

\* the loop is over; a Generator's task goes on to asyncio.sleep(interval)
PassEnd ==
    /\ stack # <<>>
    /\ ~incb
    /\ ~Suspended
    /\ Remaining(Top) = <<>>
    /\ stack' = Pop(stack)
    /\ tstate' = IF Top.node \in Generators
                 THEN [tstate EXCEPT ![Top.node][Top.task] = "sleeping"]
                 ELSE tstate
    /\ Quiet
    /\ UNCHANGED <<received, subscribers, running, task, awaiting, stopped, pending, price,
                   pipeVars, incb, now, handles>>

\* ------------------------------------------------------- Strategy and Trader
\* the handle upstream.subscribe(fn) returned
Handle(n, fn) == [node |-> n, fn |-> fn]
\* every handle of the dict is invoked (each is the handle of its own key)
UnsubAll(subs, d) ==
    [n \in Nodes |-> IF n \in DOMAIN d THEN RemoveFirst(subs[n], d[n].fn) ELSE subs[n]]

\* Strategy.attach_generator
Attach(s, g) ==
    /\ CanCall
    /\ IF AlreadyAttached(s, g)
       THEN /\ UNCHANGED <<subscribers, generator_unsub, since>>
            /\ inv' = Again(s)
       ELSE /\ subscribers' = [subscribers EXCEPT ![g] = Append1(@, OnValue(s, g))]
            /\ generator_unsub' = [generator_unsub EXCEPT
                                      ![s] = DictSet(@, g, Handle(g, OnValue(s, g)))]
            /\ since' = [since EXCEPT ![s] = DictPop(@, g)]
            /\ inv' = None
    /\ rep' = None
    /\ detached' = [detached EXCEPT ![s] = @ \ {g}]
    /\ shut' = [shut EXCEPT ![s] = Revived(@)]
    /\ stack' = [i \in DOMAIN stack |->
                    IF stack[i].node = g THEN [stack[i] EXCEPT !.det = @ \ {s}] ELSE stack[i]]
    /\ incb' = FALSE
    /\ UNCHANGED <<received, srcVars, price, latest_values, strategy_unsub, latest_decisions,
                   now, handles, fnVars, tsince>>

\* Strategy.detach_generator
Detach(s, g) ==
    /\ CanCall
    /\ generator_unsub' = [generator_unsub EXCEPT ![s] = DictPop(@, g)]
    /\ subscribers' = IF Attached(s, g)
                      THEN [subscribers EXCEPT ![g] = RemoveFirst(@, generator_unsub[s][g].fn)]
                      ELSE subscribers
    /\ latest_values' = [latest_values EXCEPT ![s] = DictPop(@, g)]
    /\ detached' = [detached EXCEPT ![s] = @ \cup {g}]
    /\ since' = [since EXCEPT ![s] = DictPop(@, g)]
    /\ incb' = FALSE
    /\ inv' = IF Attached(s, g) THEN None ELSE Unknown(s, g)
    /\ rep' = None
    /\ UNCHANGED <<received, srcVars, price, strategy_unsub, latest_decisions, shut, stack,
                   now, handles, fnVars, tsince>>

\* Strategy.shutdown
Shutdown(s) ==
    /\ CanCall
    /\ subscribers' = [UnsubAll(subscribers, generator_unsub[s]) EXCEPT ![s] = <<>>]
    /\ generator_unsub' = [generator_unsub EXCEPT ![s] = Empty]
    /\ latest_values' = [latest_values EXCEPT ![s] = Empty]
    /\ shut' = [shut EXCEPT ![s] = "shut"]
    /\ handles' = [handles EXCEPT ![s] = [u \in Users |-> [@[u] EXCEPT !.live = 0]]]
    /\ since' = [since EXCEPT ![s] = Empty]
    /\ incb' = FALSE
    /\ inv' = IF shut[s] = "shut" THEN Repeated(s) ELSE None
    /\ rep' = None
    /\ UNCHANGED <<received, srcVars, price, strategy_unsub, latest_decisions, detached, stack,
                   now, fnVars, tsince>>

\* Trader.attach_strategy
TAttach(s) ==
    /\ CanCall
    /\ IF TAttached(s)
       THEN /\ UNCHANGED <<subscribers, strategy_unsub, tsince>>
            /\ inv' = Again(Trader)
       ELSE /\ subscribers' = [subscribers EXCEPT ![s] = Append1(@, OnDecision(s))]
            /\ strategy_unsub' = DictSet(strategy_unsub, s, Handle(s, OnDecision(s)))
            /\ tsince' = DictPop(tsince, s)
            /\ inv' = None
    /\ rep' = None
    /\ detached' = [detached EXCEPT ![Trader] = @ \ {s}]
    /\ shut' = [shut EXCEPT ![Trader] = Revived(@),
                            ![s] = IF TAttached(s) THEN @ ELSE Revived(@)]
    /\ stack' = [i \in DOMAIN stack |->
                    IF stack[i].node = s THEN [stack[i] EXCEPT !.det = @ \ {Trader}]
                    ELSE stack[i]]
    /\ incb' = FALSE
    /\ UNCHANGED <<received, srcVars, price, generator_unsub, latest_values, latest_decisions,
                   now, handles, fnVars, since>>

\* Trader.detach_strategy
TDetach(s) ==
    /\ CanCall
    /\ strategy_unsub' = DictPop(strategy_unsub, s)
    /\ subscribers' = IF TAttached(s)
                      THEN [subscribers EXCEPT ![s] = RemoveFirst(@, strategy_unsub[s].fn)]
                      ELSE subscribers
    /\ latest_decisions' = DictPop(latest_decisions, s)
    /\ detached' = [detached EXCEPT ![Trader] = @ \cup {s}]
    /\ tsince' = DictPop(tsince, s)
    /\ incb' = FALSE
    /\ inv' = IF TAttached(s) THEN None ELSE Unknown(Trader, s)
    /\ rep' = None
    /\ UNCHANGED <<received, srcVars, price, generator_unsub, latest_values, shut, stack,
                   now, handles, fnVars, since>>

\* Trader.shutdown
TShutdown ==
    /\ CanCall
    /\ subscribers' = UnsubAll(subscribers, strategy_unsub)
    /\ strategy_unsub' = Empty
    /\ latest_decisions' = Empty
    /\ shut' = [shut EXCEPT ![Trader] = "shut"]
    /\ tsince' = Empty
    /\ incb' = FALSE
    /\ inv' = IF shut[Trader] = "shut" THEN Repeated(Trader) ELSE None
    /\ rep' = None
    /\ UNCHANGED <<received, srcVars, price, generator_unsub, latest_values, detached, stack,
                   now, handles, fnVars, since>>

\* ------------------------------------------------- decision function calls
\* fn(vals) called directly on the decision function instance of Strategy s,
\* as the tests do; trace records the call: max(vals), the nonlocal before and
\* after it, and the value returned unless the call raised
DirectCall(s, vals) == [kind |-> "direct", who |-> s, vals |-> vals]
FnCall(s, vals) ==
    /\ AtLoop
    /\ Len(trace) < MaxCalls
    /\ \E fails \in MayFail(decision_fn[s]) :
          LET r == FnApply(decision_fn[s], fn_state[Instance(s)], vals, fails)
          IN  /\ fn_state' = [fn_state EXCEPT ![Instance(s)] = r.state]
              /\ trace' = Append(trace, [who |-> s, current |-> MaxOf(vals),
                                         before |-> fn_state[Instance(s)],
                                         after |-> r.state,
                                         ret |-> r.value, raised |-> r.raised])
    /\ inv' = DirectCall(s, vals)
    /\ rep' = None
    /\ UNCHANGED <<received, subscribers, srcVars, price, generator_unsub, latest_values,
                   strategy_unsub, latest_decisions, detached, shut, stack, incb,
                   now, handles, decision_fn, since, tsince>>

\* trimmed_mean(vals, p/q) is called; the function has no state, and calls
\* that follow one another at once are not told apart
Trimmed(vals, p, q, ret) ==
    [kind |-> "trimmed", vals |-> vals, p |-> p, q |-> q, ret |-> ret]
TrimCall(vals, p, q) ==
    /\ AtLoop
    /\ inv.kind # "trimmed"
    /\ inv' = Trimmed(vals, p, q, TrimmedMean(vals, p, q))
    /\ rep' = None
    /\ UNCHANGED <<subscribers, srcVars, price, pipeVars, stack, incb, now, handles,
                   received>>

\* ------------------------------------------------------------ specifications
Passes == DeliverUser \/ CbReturn \/ CbRaise \/ DeliverOnValue \/ DeliverOnDecision
          \/ PassEnd

\* the whole program
Next ==
    \/ \E n \in Nodes, u \in Users : Subscribe(n, u)
    \/ \E n \in Nodes, u \in Users, fresh \in BOOLEAN : Unsubscribe(n, u, fresh)
    \/ \E g \in Generators : Start(g)
    \/ \E g \in Generators, t \in 1..MaxTasks : TaskFirst(g, t)
    \/ \E g \in Generators, t \in 1..MaxTasks : TaskWake(g, t)
    \/ \E c \in Callers, g \in Generators : Stop(c, g)
    \/ \E c \in Callers : StopResume(c)
    \/ Passes
    \/ \E s \in Strategies, g \in Generators : Attach(s, g)
    \/ \E s \in Strategies, g \in Generators : Detach(s, g)
    \/ \E s \in Strategies : Shutdown(s)
    \/ \E s \in Strategies : TAttach(s)
    \/ \E s \in Strategies : TDetach(s)
    \/ TShutdown
    \/ \E s \in Strategies, vals \in CallLists : FnCall(s, vals)
    \/ CbDefer
    \/ CoroDone
    \/ \E vals \in TrimLists, f \in TrimFractions : TrimCall(vals, f[1], f[2])

Spec == Init /\ [][Next]_vars

\* the Generator and the Strategy of the runs that have one of each
OneSource   == {"g1"}
OneStrategy == {"s1"}
OneUser     == {"u1"}

\* A Generator alone, with user subscribers: its subscription broker and the
\* life of its periodic task under start() and stop().
TaskStep == \E g \in Generators, t \in 1..MaxTasks : TaskFirst(g, t) \/ TaskWake(g, t)
Resume   == \E c \in Callers : StopResume(c)
UserPass == DeliverUser \/ CbReturn \/ CbRaise \/ PassEnd

NextSource ==
    \/ \E g \in OneSource, u \in Users : Subscribe(g, u)
    \/ \E g \in OneSource, u \in Users, fresh \in BOOLEAN : Unsubscribe(g, u, fresh)
    \/ \E g \in OneSource : Start(g)
    \/ \E c \in Callers, g \in OneSource : Stop(c, g)
    \/ TaskStep
    \/ Resume
    \/ UserPass

SourceSpec == Init /\ [][NextSource]_vars

\* The event loop runs every task that is ready and every timer that is due;
\* a callback that was invoked returns or raises.
FairSourceSpec ==
    SourceSpec /\ WF_vars(TaskStep) /\ WF_vars(Resume) /\ WF_vars(UserPass)

\* The pipeline of one Generator, one Strategy (of decision function mean) and
\* the Trader, with user subscribers on the Generator and the Strategy; no
\* Generator is stopped and no user handle is invoked.
NextPipe ==
    \/ \E n \in OneSource \cup OneStrategy, u \in Users :
          UserCount(subscribers[n]) < MaxPipeSubs /\ Subscribe(n, u)
    \/ \E g \in OneSource : Start(g)
    \/ TaskStep
    \/ Passes
    \/ \E s \in OneStrategy, g \in OneSource : Attach(s, g)
    \/ \E s \in OneStrategy, g \in OneSource : Detach(s, g)
    \/ \E s \in OneStrategy : Shutdown(s)
    \/ \E s \in OneStrategy : TAttach(s)
    \/ \E s \in OneStrategy : TDetach(s)
    \/ TShutdown

PipeSpec == Init /\ [][NextPipe]_vars

\* One Strategy on several Generators, with user subscribers on the Generators
\* and the Strategy; the Strategy is constructed with any of the decision
\* functions.
AggFns == {MeanFn, MaxSeenFn, TrailingFn(StopDistance), UnreliableFn}
InitAgg == \E fn \in AggFns : Constructed([DemoFns EXCEPT !["s1"] = fn])
AggPasses == DeliverUser \/ CbReturn \/ CbRaise \/ DeliverOnValue \/ PassEnd

NextAgg ==
    \/ \E n \in Generators \cup OneStrategy, u \in OneUser :
          UserCount(subscribers[n]) < MaxPipeSubs /\ Subscribe(n, u)
    \/ \E g \in Generators : Start(g)
    \/ TaskStep
    \/ AggPasses
    \/ \E s \in OneStrategy, g \in Generators : Attach(s, g)
    \/ \E s \in OneStrategy, g \in Generators : Detach(s, g)
    \/ \E s \in OneStrategy : Shutdown(s)

AggSpec == InitAgg /\ [][NextAgg]_vars

\* The Trader on the three Strategies of main_demo, all fed by one Generator,
\* with a user subscriber on one Strategy; the Trader attaches and detaches.
NextTrader ==
    \/ \E s \in OneStrategy, u \in OneUser :
          UserCount(subscribers[s]) < MaxPipeSubs /\ Subscribe(s, u)
    \/ \E g \in OneSource : Start(g)
    \/ TaskStep
    \/ Passes
    \/ \E s \in Strategies, g \in OneSource : Attach(s, g)
    \/ \E s \in Strategies : TAttach(s)
    \/ \E s \in Strategies : TDetach(s)

TraderSpec == Init /\ [][NextTrader]_vars

\* The chain Generator g1 -> Strategy s1 (mean) -> Trader, put together by the
\* main coroutine between ticks and never taken apart, with user subscribers
\* on the Generator and the Strategy.
NextChain ==
    \/ \E n \in OneSource \cup OneStrategy, u \in OneUser :
          UserCount(subscribers[n]) < MaxPipeSubs /\ Subscribe(n, u)
    \/ \E g \in OneSource : Start(g)
    \/ TaskStep
    \/ Passes
    \/ \E s \in OneStrategy, g \in OneSource : stack = <<>> /\ Attach(s, g)
    \/ \E s \in OneStrategy : stack = <<>> /\ TAttach(s)

ChainSpec == Init /\ [][NextChain]_vars

\* One trailing_stop_sell instance, of any of the stop distances, called
\* directly with nonempty lists.
TrailUser == "s3"
InitTrail ==
    \E d \in Distances : Constructed([DemoFns EXCEPT ![TrailUser] = TrailingFn(d)])
NextTrail == \E vals \in CallLists : FnCall(TrailUser, vals)
TrailSpec == InitTrail /\ [][NextTrail]_vars

\* One max_seen instance called directly, with lists that may be empty.
MaxUser == "s2"
NextMax == \E vals \in CallLists \cup {<<>>} : FnCall(MaxUser, vals)
MaxSpec == Init /\ [][NextMax]_vars

\* Two Generators feeding one Strategy (mean) that the Trader is attached to,
\* with a user subscriber on the first Generator and on the Strategy; the
\* first Generator is stopped and started again.
NextFlow ==
    \/ \E n \in OneSource \cup OneStrategy, u \in OneUser :
          UserCount(subscribers[n]) < MaxPipeSubs /\ Subscribe(n, u)
    \/ \E g \in Generators : Start(g)
    \/ \E c \in {"c1"}, g \in OneSource : Stop(c, g)
    \/ Resume
    \/ TaskStep
    \/ Passes
    \/ \E s \in OneStrategy, g \in Generators : Attach(s, g)
    \/ \E s \in OneStrategy : TAttach(s)

FlowSpec == Init /\ [][NextFlow]_vars

\* A Generator and a Strategy attached to it, with user subscribers whose
\* callables may return coroutines; the Generator is started and never
\* stopped.  The event loop runs every task step that is ready and every
\* callback returns, raises or returns a coroutine, but a scheduled coroutine
\* may take for ever.
DeferPass == UserPass \/ CbDefer \/ DeliverOnValue
NextDefer ==
    \/ \E g \in OneSource, u \in Users : Subscribe(g, u)
    \/ \E s \in OneStrategy, u \in OneUser :
          UserCount(subscribers[s]) < MaxPipeSubs /\ Subscribe(s, u)
    \/ \E g \in OneSource : Start(g)
    \/ \E s \in OneStrategy, g \in OneSource : stack = <<>> /\ Attach(s, g)
    \/ TaskStep
    \/ DeferPass
    \/ CoroDone

DeferSpec == Init /\ [][NextDefer]_vars /\ WF_vars(TaskStep) /\ WF_vars(DeferPass)

\* trimmed_mean alone, called with any of the lists and fractions.
NextTrim == \E vals \in TrimLists, f \in TrimFractions : TrimCall(vals, f[1], f[2])
TrimSpec == Init /\ [][NextTrim]_vars

\* ------------------------------------------------------------------ claims
Downstream == Strategies \cup {Trader}
Frames == {stack[i] : i \in DOMAIN stack}
LoopOver(f) == Remaining(f) = <<>>
Called(n) == inv.kind = "call" /\ inv.call.id = n

\* C1: when a callback of a notification pass (a Generator's tick or a
\* Strategy's recomputation) has raised, the pass still invokes every callback
\* of its snapshot, in order and each with the pass's own (id, value,
\* timestamp), and the Generator's task is alive and goes on to its sleep.
C1_RaiseIsolated ==
    \A f \in Frames :
        f.raisedAt > 0 =>
            /\ \A k \in DOMAIN f.log :
                  f.log[k] = [cb |-> f.snap[k], id |-> f.node, value |-> f.value, ts |-> f.ts]
            /\ Len(f.log) = f.idx - 1
            /\ LoopOver(f) => Len(f.log) = Len(f.snap)
            /\ f.node \in Generators => tstate[f.node][f.task] = "ticking"

\* a Strategy's pass in which the first callback raised has run to its end,
\* inside a Generator's pass in which a callback raised before the Strategy's
C1_Witness ==
    /\ Len(stack) = 2
    /\ stack[1].raisedAt = 1 /\ Len(stack[1].log) = 2
    /\ stack[2].raisedAt = 1 /\ Len(stack[2].log) = 2 /\ LoopOver(stack[2])

\* C2: once a stop() of a Generator has returned, and until start() is called
\* again, the Generator invokes no subscriber callback.
C2_NoCallAfterStop ==
    \A g \in Generators : stopped[g] => ~Called(g)

\* C3: every stop() that waits for the periodic task eventually returns.
C3_StopReturns ==
    \A c \in Callers : (awaiting[c] # Idle) ~> (awaiting[c] = Idle)

\* C4: a node's subscriber list holds exactly one entry per subscription whose
\* handle has never been invoked (whatever handles have been invoked, and
\* however often).
C4_OneEntryPerLiveHandle ==
    \A n \in Nodes, u \in Users :
        Count(subscribers[n], UserCb(u)) = handles[n][u].live

\* C5: after detach_generator(g) has returned and until g is attached again,
\* no notification of g writes g's value into the Strategy's cache or starts
\* a recomputation of the Strategy.
C5_NoWriteAfterDetach ==
    \A s \in Strategies, g \in Generators :
        g \in detached[s] =>
            /\ g \notin DOMAIN latest_values[s]
            /\ ~(Called(g) /\ inv.call.cb = OnValue(s, g))

\* C6: every key of a latest-value cache is the id of an upstream entity that
\* is attached.
C6_CacheKeysAttached ==
    /\ \A s \in Strategies : DOMAIN latest_values[s] \subseteq DOMAIN generator_unsub[s]
    /\ DOMAIN latest_decisions \subseteq DOMAIN strategy_unsub

\* C7: the callbacks a pass invokes are the subscribers registered when the
\* pass began (its snapshot), each once and in subscription order, whatever is
\* subscribed or unsubscribed while the pass runs.
C7_SnapshotDelivery ==
    \A f \in Frames :
        /\ Len(f.log) <= Len(f.snap)
        /\ \A k \in DOMAIN f.log : f.log[k].cb = f.snap[k]
        /\ LoopOver(f) => [k \in DOMAIN f.log |-> f.log[k].cb] = f.snap

\* a pass of two callbacks has run to its end and the subscriber list is no
\* longer the one the pass began with
C7_Witness ==
    \E f \in Frames :
        /\ LoopOver(f) /\ Len(f.log) = 2
        /\ subscribers[f.node] # f.snap
        /\ \E k \in DOMAIN f.snap : f.snap[k] \notin Range(subscribers[f.node])
        /\ ~incb

\* C8: after shutdown() has returned (and no attach or subscribe call has
\* followed) a Strategy invokes no callback and the Trader prints no report.
C8_SilentAfterShutdown ==
    /\ \A s \in Strategies : shut[s] = "shut" => ~Called(s)
    /\ shut[Trader] = "shut" => rep = None

\* C9: once shutdown() has returned, in every later state the node's cache and
\* attachment map are empty and it emits nothing, whatever calls follow.
C9_InertAfterShutdown ==
    /\ \A s \in Strategies :
          shut[s] # "no" =>
              /\ latest_values[s] = Empty
              /\ generator_unsub[s] = Empty
              /\ ~Called(s)
    /\ shut[Trader] # "no" =>
          /\ latest_decisions = Empty
          /\ strategy_unsub = Empty
          /\ rep = None

\* a step writes a value into cache d (dict[k] = v)
Writes(d, e) == \E k \in DOMAIN e : k \notin DOMAIN d \/ e[k] # d[k]
\* a step starts a pass of node n
Begins(n) == Len(stack') > Len(stack) /\ stack'[Len(stack')].node = n

\* C10: while a pass of an upstream entity runs that began after a node
\* detached from that entity, and the node has not attached to it again, no
\* step writes the node's cache, starts a recomputation (and so a downstream
\* notification) of the node, or prints a report.
C10_DetachedStep ==
    /\ \A s \in Strategies :
          (\E f \in Frames : f.node \in Generators /\ s \in f.det) =>
              /\ ~Writes(latest_values[s], latest_values'[s])
              /\ ~Begins(s)
    /\ (\E f \in Frames : f.node \in Strategies /\ Trader \in f.det) =>
          /\ ~Writes(latest_decisions, latest_decisions')
          /\ rep' = None

C10_LaterPassIgnored == [][C10_DetachedStep]_vars

\* a pass of the Generator that began after the Strategy detached from it has
\* invoked its callbacks and run to its end
C10_Witness ==
    /\ Len(stack) = 1 /\ ~incb
    /\ "s1" \in stack[1].det
    /\ LoopOver(stack[1]) /\ Len(stack[1].log) >= 1

\* C11: in a recomputation of a Strategy, a Generator that is attached and has
\* not notified the Strategy since it was (re-)attached contributes no value
\* to the sequence the decision function is applied to.
C11_ReattachedNotCounted ==
    \A f \in Frames :
        f.node \in Strategies =>
            \A g \in f.att \ DOMAIN f.want : g \notin DOMAIN f.vals

\* C12: the nonlocal of a Strategy's decision function changes only in a step
\* that starts a recomputation of that Strategy (never in attach or detach),
\* and max_seen's running maximum never decreases: after a detach and
\* re-attach it still reflects the values seen before.
C12_Step ==
    \A s \in Strategies :
        /\ fn_state'[s] # fn_state[s] => Begins(s)
        /\ decision_fn[s].kind = "max_seen" => fn_state'[s] >= fn_state[s]

C12_FnStateKept == [][C12_Step]_vars

\* a max_seen Strategy that was never shut down is attached to a Generator and
\* its cache is empty (it detached and attached again), and its running
\* maximum is the value seen before
C12_Witness ==
    /\ decision_fn["s1"].kind = "max_seen" /\ shut["s1"] = "no"
    /\ fn_state["s1"] = 8
    /\ Attached("s1", "g1") /\ Attached("s1", "g2")
    /\ latest_values["s1"] = Empty
    /\ stack = <<>>

\* the periodic tasks of g that have been created and have not ended
LiveTasks(g) == {t \in 1..MaxTasks : tstate[g][t] \in {"new", "ticking", "sleeping"}}

\* C13: a start() on a Generator that has a periodic task alive creates no
\* task: no step takes a Generator from one or more live tasks to more.
C13_Step ==
    \A g \in Generators :
        LiveTasks(g) # {} => LiveTasks(g)' \subseteq LiveTasks(g)

C13_StartIdempotent == [][C13_Step]_vars

\* the calls of callback cb a pass has made
Calls(f, cb) == Cardinality({k \in DOMAIN f.log : f.log[k].cb = cb})

\* C14: an attach of an id that is attached changes neither the attachment
\* maps, the caches nor the subscriber lists; a Strategy's callback is in a
\* Generator's subscriber list once when attached and not at all otherwise,
\* and a pass that began with it invokes it exactly once: one recomputation
\* per tick.  The Trader's callback is never twice in a Strategy's list, and
\* a pass invokes it at most once.
C14_OneCallback ==
    /\ \A s \in Strategies, g \in Generators :
          /\ Count(subscribers[g], OnValue(s, g)) = IF Attached(s, g) THEN 1 ELSE 0
          /\ \A f \in Frames :
                f.node = g =>
                    /\ Count(f.snap, OnValue(s, g)) <= 1
                    /\ Calls(f, OnValue(s, g)) <= Count(f.snap, OnValue(s, g))
                    /\ LoopOver(f) => Calls(f, OnValue(s, g)) = Count(f.snap, OnValue(s, g))
    /\ \A s \in Strategies :
          /\ Count(subscribers[s], OnDecision(s)) <= 1
          /\ \A f \in Frames :
                f.node = s =>
                    /\ Count(f.snap, OnDecision(s)) <= 1
                    /\ Calls(f, OnDecision(s)) <= Count(f.snap, OnDecision(s))
                    /\ LoopOver(f) => Calls(f, OnDecision(s)) = Count(f.snap, OnDecision(s))

C14_Step ==
    /\ inv'.kind = "again" =>
          UNCHANGED <<subscribers, generator_unsub, latest_values, strategy_unsub,
                      latest_decisions>>
    /\ C14_OneCallback'

C14_AttachIdempotent == [][C14_Step]_vars

\* a callback of a tick has attached the Strategy a second time, after the
\* Strategy's recomputation of that tick in which the Trader made its report
C14_Witness ==
    /\ inv = Again("s1")
    /\ Len(stack) = 1 /\ stack[1].node = "g1"
    /\ Calls(stack[1], OnValue("s1", "g1")) = 1
    /\ Len(stack[1].reps) = 1
    /\ latest_values["s1"] # Empty /\ latest_decisions # Empty

\* C15: when the decision_fn raised in a recomputation, the Strategy's pass
\* carries the arithmetic mean of the values the function was called with,
\* every callback it invokes gets that mean, and the Generator's loop that
\* invoked the Strategy saw no exception; a recomputation in which the same
\* function does not raise carries the function's value.
C15_FallbackMean ==
    \A i \in DOMAIN stack :
        LET f == stack[i] IN
        f.node \in Strategies =>
            /\ f.fell =>
                  /\ f.value = Mean(f.vals)
                  /\ \A k \in DOMAIN f.log :
                        f.log[k].value = Mean(f.vals) /\ f.log[k].id = f.node
                  /\ i > 1 /\ stack[i - 1].raisedAt # stack[i - 1].idx - 1
            /\ (~f.fell /\ decision_fn[f.node].kind = "unreliable") =>
                  f.value = MaxOf(f.vals)

\* the decision_fn raised on the values 4 and 8, and the Strategy's pass has
\* notified its subscriber and run to its end
C15_Witness ==
    /\ Len(stack) = 2 /\ ~incb
    /\ Top.fell /\ Top.value = 6
    /\ Cardinality(DOMAIN Top.vals) = 2
    /\ LoopOver(Top) /\ Len(Top.log) = 1

\* C16: a recomputation triggered by a notification (g, v, ts) of an attached
\* Generator has stored v under g, is computed from exactly the latest values
\* of the attached Generators that have notified since their attach, and its
\* pass invokes each subscriber of the Strategy once with (the Strategy's id,
\* the decision, ts).
C16_DecisionOverFresh ==
    \A i \in DOMAIN stack :
        LET f == stack[i] IN
        (f.node \in Strategies /\ i > 1 /\ stack[i - 1].node \in f.att) =>
            LET u == stack[i - 1] IN
            /\ u.node \in DOMAIN f.vals /\ f.vals[u.node] = u.value
            /\ f.vals = f.want
            /\ decision_fn[f.node].kind = "mean" => f.value = Mean(f.want)
            /\ f.ts = u.ts
            /\ \A k \in DOMAIN f.log :
                  f.log[k] = [cb |-> f.snap[k], id |-> f.node, value |-> f.value, ts |-> u.ts]
            /\ LoopOver(f) => Len(f.log) = Len(f.snap)

\* m is the median of the values of d: the middle value of an odd number of
\* values, the mean of the two middle values of an even number
IsMedian(m, d) ==
    LET n == Cardinality(DOMAIN d)
        Others(K) == DOMAIN d \ K
    IN  IF n % 2 = 1
        THEN \E a \in DOMAIN d :
                /\ m = d[a]
                /\ Cardinality({k \in DOMAIN d : d[k] < m}) <= (n - 1) \div 2
                /\ Cardinality({k \in DOMAIN d : d[k] > m}) <= (n - 1) \div 2
        ELSE \E a, b \in DOMAIN d :
                /\ a # b /\ d[a] <= d[b]
                /\ m = Half(Plus(d[a], d[b]))
                /\ \A k \in Others({a, b}) : d[k] <= d[a] \/ d[k] >= d[b]
                /\ Cardinality({k \in Others({a, b}) : d[k] <= d[a]}) >= n \div 2 - 1
                /\ Cardinality({k \in Others({a, b}) : d[k] >= d[b]}) >= n \div 2 - 1

\* C17: the report the Trader makes on a decision of an attached Strategy
\* carries the timestamp of that decision, the number of attached Strategies
\* that have reported since their attach, and the median of their latest
\* decisions.
C17_MedianOfFresh ==
    (inv.kind = "call" /\ inv.call.cb.kind = "on_decision" /\ TAttached(inv.call.id)) =>
        /\ rep.kind = "report"
        /\ rep.ts = inv.call.ts
        /\ rep.n = Cardinality(DOMAIN tsince)
        /\ IsMedian(rep.med, tsince)

\* C18: in the chain of one Generator, one Strategy using mean and the Trader,
\* the pass of a tick of value v makes the Trader print exactly one line, for
\* one Strategy, of median v and of the tick's timestamp, and has printed it
\* when the pass is over, that is before the Generator's task can tick again;
\* no line is printed outside the pass of a tick.
ChainBuilt == Attached("s1", "g1") /\ TAttached("s1")
TickLine(f) == [kind |-> "report", n |-> 1, med |-> f.value, ts |-> f.ts]
C18_OneReportPerTick ==
    /\ rep.kind = "report" => stack # <<>>
    /\ (stack # <<>> /\ stack[1].node = "g1" /\ ChainBuilt) =>
          /\ Len(stack[1].reps) <= 1
          /\ \A k \in DOMAIN stack[1].reps : stack[1].reps[k] = TickLine(stack[1])
          /\ (Len(stack) = 1 /\ LoopOver(stack[1])) => stack[1].reps = <<TickLine(stack[1])>>

\* the pass of a later tick, of price 8, is over: a user subscriber of the
\* Generator was invoked and the Trader printed the tick's line
C18_Witness ==
    /\ ChainBuilt
    /\ Len(stack) = 1 /\ LoopOver(stack[1])
    /\ stack[1].node = "g1" /\ stack[1].ts = 1 /\ stack[1].value = 8
    /\ stack[1].reps = <<TickLine(stack[1])>>
    /\ latest_decisions = [s \in {"s1"} |-> 8]
    /\ UserCount(stack[1].snap) = 1

\* C19: for one trailing_stop_sell instance of stop distance d >= 0 called with
\* nonempty lists, a call returns the sentinel exactly when current, the
\* maximum of its list, is below the level that the initialise and raise steps
\* of that call leave, and returns that level otherwise; the call that returns
\* the sentinel leaves the level unset, so that the next call returns its own
\* current minus d.  With the distance and the values doubled, the calls
\* 20, 22, 23, 22, 20, 16 at distance 2 return 18, 20, 21, 21, sentinel, 14.
C19_SellBelowLevel ==
    LET d   == decision_fn[TrailUser].stop_distance
        q   == SelectSeq(trace, LAMBDA e : e.who = TrailUser)
        in  == <<20, 22, 23, 22, 20, 16>>
        out == <<18, 20, 21, 21, NegInf, 14>>
    IN  /\ \A i \in DOMAIN q :
              LET e    == q[i]
                  init == IF e.before = NegInf THEN e.current - d ELSE e.before
                  lvl  == IF e.current > init + d THEN e.current - d ELSE init
              IN  /\ ~e.raised
                  /\ e.ret = NegInf <=> e.current < lvl
                  /\ e.ret # NegInf => e.ret = lvl /\ e.after = lvl
                  /\ e.ret = NegInf =>
                        /\ e.after = NegInf
                        /\ i < Len(q) => /\ q[i + 1].before = NegInf
                                         /\ q[i + 1].ret = q[i + 1].current - d
                  /\ (d = 2 /\ i <= Len(in) /\ \A k \in 1..i : q[k].current = in[k])
                        => e.ret = out[i]
        /\ (inv.kind = "direct" /\ inv.who = TrailUser) =>
              /\ q[Len(q)].current \in Range(inv.vals)
              /\ \A v \in Range(inv.vals) : v <= q[Len(q)].current

\* the six calls of the example have been made, the last of them with a list
\* of two values
C19_Witness ==
    /\ decision_fn[TrailUser] = TrailingFn(2)
    /\ [i \in DOMAIN trace |-> trace[i].current] = <<20, 22, 23, 22, 20, 16>>
    /\ [i \in DOMAIN trace |-> trace[i].ret] = <<18, 20, 21, 21, NegInf, 14>>
    /\ trace[5].after = NegInf
    /\ inv = DirectCall(TrailUser, <<16, 16>>)

\* C20: for one trailing_stop_sell instance, two consecutive calls neither of
\* which returns the sentinel return levels that do not decrease (so the
\* levels of any run of calls without a sell are non-decreasing), and the
\* second returns a higher level only when its current exceeds the level by
\* more than the stop distance, the new level being current minus the distance.
C20_LevelNeverLowered ==
    LET d == decision_fn[TrailUser].stop_distance
        q == SelectSeq(trace, LAMBDA e : e.who = TrailUser)
    IN  \A i \in DOMAIN q :
            (i < Len(q) /\ q[i].ret # NegInf /\ q[i + 1].ret # NegInf) =>
                /\ q[i].ret <= q[i + 1].ret
                /\ q[i].ret < q[i + 1].ret =>
                      /\ q[i + 1].current > q[i].ret + d
                      /\ q[i + 1].ret = q[i + 1].current - d

\* a run without a sell in which the level was raised, and then kept by a
\* call whose current was lower than the one before
C20_Witness ==
    /\ decision_fn[TrailUser] = TrailingFn(StopDistance)
    /\ Len(trace) = 3
    /\ [i \in DOMAIN trace |-> trace[i].current] = <<20, 23, 22>>
    /\ [i \in DOMAIN trace |-> trace[i].ret] = <<18, 21, 21>>

\* C21: for one max_seen instance, a call with a nonempty list returns the
\* maximum of the values of this and of all earlier calls, so that the values
\* returned never decrease; a call with an empty list returns the running
\* maximum of the earlier calls (negative infinity when no value was passed
\* yet) and leaves the state as it was.  No call raises.
C21_RunningMaximum ==
    LET q == SelectSeq(trace, LAMBDA e : e.who = MaxUser)
        \* the maximum of the values passed in the calls 1..i
        sofar(i) == MaxOver([k \in 1..i |-> q[k].current], 1..i)
    IN  /\ \A i \in DOMAIN q :
              /\ ~q[i].raised
              /\ q[i].ret = sofar(i)
              /\ q[i].after = q[i].ret
              /\ q[i].current = NegInf => q[i].ret = q[i].before /\ q[i].after = q[i].before
              /\ i > 1 => q[i - 1].ret <= q[i].ret
        /\ (inv.kind = "direct" /\ inv.who = MaxUser) =>
              /\ inv.vals = <<>> <=> q[Len(q)].current = NegInf
              /\ \A v \in Range(inv.vals) : v <= q[Len(q)].ret

\* an empty list first, a value, an empty list again, a higher value, and a
\* lower value in a list of two
C21_Witness ==
    /\ [i \in DOMAIN trace |-> trace[i].current] = <<NegInf, 20, NegInf, 22, 16>>
    /\ [i \in DOMAIN trace |-> trace[i].ret] = <<NegInf, 20, 20, 22, 22>>
    /\ \A i \in DOMAIN trace : trace[i].who = MaxUser
    /\ inv = DirectCall(MaxUser, <<16, 16>>)

\* C22: the pass of a Generator's tick, with the recomputation of the
\* Strategies and the Trader's printing that it triggers, is over before any
\* pass of a Generator begins: a Generator's pass is the outermost one, the
\* passes in progress are of different nodes and nested (a Strategy's inside a
\* Generator's), the one task that is in the middle of a tick is the task
\* of the outermost pass, and the Trader prints only inside a pass.  Passes of
\* different Generators follow one another in any order.
C22_PassesDoNotOverlap ==
    /\ \A i \in DOMAIN stack :
          /\ stack[i].node \in Generators <=> i = 1
          /\ \A j \in DOMAIN stack : stack[i].node = stack[j].node => i = j
    /\ \A g \in Generators, t \in 1..MaxTasks :
          tstate[g][t] = "ticking" <=>
              (stack # <<>> /\ stack[1].node = g /\ stack[1].task = t)
    /\ incb => stack # <<>>
    /\ rep.kind = "report" => Len(stack) = 2

\* the Strategy's pass is in progress inside a tick of g2, the Trader has
\* printed, and g1, whose task has ticked already, waits for its next tick
C22_Witness ==
    /\ Len(stack) = 2
    /\ stack[1].node = "g2" /\ stack[2].node = "s1"
    /\ rep.kind = "report" /\ rep.n = 1
    /\ \E t \in 1..MaxTasks : tstate["g1"][t] = "sleeping"
    /\ DOMAIN latest_values["s1"] = {"g1", "g2"}

\* C23: the loop does not wait for the coroutine a subscriber returned.  A
\* pass that is over has invoked every subscriber of its snapshot; every tick
\* of the Generator's task runs to the end of its pass and the task goes to
\* sleep; and the sleeping task of the running Generator ticks again: all
\* of it whether or not the scheduled work ever finishes.
C23_WorkDoesNotBlock ==
    /\ [](\A i \in DOMAIN stack :
             LoopOver(stack[i]) =>
                 [k \in DOMAIN stack[i].log |-> stack[i].log[k].cb] = stack[i].snap)
    /\ \A g \in OneSource, t \in 1..MaxTasks :
          /\ (tstate[g][t] = "ticking") ~> (tstate[g][t] = "sleeping")
          /\ (tstate[g][t] = "sleeping" /\ pending > 0) ~> (tstate[g][t] = "ticking")

\* a tick has begun, with two subscribers to notify, while work that an
\* earlier pass scheduled is unfinished
C23_Witness ==
    /\ pending > 0
    /\ Len(stack) = 1 /\ ~incb
    /\ stack[1].node = "g1" /\ stack[1].idx = 1 /\ stack[1].ts = 1
    /\ UserCount(stack[1].snap) = 2

\* C24: a detach call for a Generator (a Strategy) that is not attached, never
\* attached or detached already, changes neither the attachment map, nor the
\* cache, nor a subscriber list.
C24_Step ==
    inv'.kind = "unknown" =>
        /\ generator_unsub' = generator_unsub
        /\ strategy_unsub' = strategy_unsub
        /\ latest_values' = latest_values
        /\ latest_decisions' = latest_decisions
        /\ subscribers' = subscribers
C24_UnknownDetachNoOp == [][C24_Step]_vars

\* C25: a shutdown call on a Strategy or on the Trader that is shut down
\* already (no attach or subscribe call was made on it since) changes
\* neither its attachment map, nor its cache, nor a subscriber list.
C25_Step ==
    inv'.kind = "repeated" =>
        /\ generator_unsub' = generator_unsub
        /\ strategy_unsub' = strategy_unsub
        /\ latest_values' = latest_values
        /\ latest_decisions' = latest_decisions
        /\ subscribers' = subscribers
C25_ShutdownIdempotent == [][C25_Step]_vars

\* C26: a tick of a Generator sets its price, and the pass of the tick invokes
\* every callable subscribed when the tick began with the Generator's own id,
\* that price and the tick's timestamp.  Between the ticks, therefore, every
\* user callable that was subscribed when the latest tick began (one
\* subscribed before start() is) was last invoked with the Generator's price.
C26_SubscribersGetPrice ==
    /\ (inv.kind = "call" /\ inv.call.id \in Generators) =>
          /\ stack # <<>> /\ stack[1].node = inv.call.id
          /\ inv.call.value = price[inv.call.id]
          /\ inv.call.ts = stack[1].ts
    /\ \A g \in Generators :
          /\ (\E t \in 1..MaxTasks : tstate[g][t] = "ticking") =>
                stack[1].node = g /\ stack[1].value = price[g]
          /\ (\A t \in 1..MaxTasks : tstate[g][t] # "ticking") =>
                \A u \in Users : received[g][u] \in {NotDue, price[g]}
    /\ \A i \in DOMAIN stack :
          LoopOver(stack[i]) =>
              [k \in DOMAIN stack[i].log |-> stack[i].log[k].cb] = stack[i].snap

\* the Generator sleeps after a tick whose price is not the initial price;
\* the two user callables, each subscribed once, were invoked in its pass
C26_Witness ==
    /\ stack = <<>>
    /\ \E t \in 1..MaxTasks : tstate["g1"][t] = "sleeping"
    /\ now = MaxTime
    /\ price["g1"] = 8
    /\ \A u \in Users : received["g1"][u] = 8 /\ handles["g1"][u].live = 1

\* C27: for a nonempty list of n values and a fraction p/q >= 0, with
\* k = floor(n * p / q): when 2k < n, trimmed_mean returns the mean of the
\* n - 2k values that are left when k lowest and k highest are taken out (their
\* sum is the total less the least and less the greatest sum that k of the
\* values can have); when 2k >= n, it returns the mean of all the values.
C27_TrimmedMean ==
    inv.kind = "trimmed" =>
        LET vals  == inv.vals
            n     == Len(vals)
            k     == CHOOSE j \in 0..(2 * n) : j * inv.q <= n * inv.p /\ n * inv.p < (j + 1) * inv.q
            total == SumOver(vals, 1..n)
            sums  == {SumOver(vals, S) : S \in {T \in SUBSET (1..n) : Cardinality(T) = k}}
            low   == CHOOSE x \in sums : \A y \in sums : x <= y
            high  == CHOOSE x \in sums : \A y \in sums : x >= y
        IN  IF 2 * k < n
            THEN inv.ret * (n - 2 * k) = total - low - high
            ELSE inv.ret * n = total

\* a list of five values, not in order and with a repeated value, trimmed by
\* 2/5: the two lowest and the two highest are taken out
C27_Witness ==
    /\ inv.kind = "trimmed"
    /\ inv.vals = <<600, 0, 120, 60, 0>>
    /\ <<inv.p, inv.q>> = <<2, 5>>
    /\ inv.ret = 60

\* C28: a notification that a Generator delivers to one Strategy changes no
\* decision that another Strategy produces: whatever values the other
\* Strategy holds at its next recomputation, its max_seen or
\* trailing_stop_sell instance returns after the step what it would have
\* returned before it.
C28_Step ==
    \A s \in Strategies :
        (inv'.kind = "call" /\ inv'.call.cb.kind = "on_value" /\ inv'.call.cb.who = s) =>
            \A o \in Strategies \ {s} :
                \A gs \in SUBSET Generators \ {{}} : \A lv \in [gs -> Values] :
                    FnApply(decision_fn[o], fn_state'[Instance(o)], lv, FALSE)
                        = FnApply(decision_fn[o], fn_state[Instance(o)], lv, FALSE)
C28_StateNotShared == [][C28_Step]_vars

\* the max_seen Strategy and the trailing_stop_sell Strategy have both been
\* notified of 8 and then of 4: the first holds its maximum, the second has
\* signalled a sell and holds no level
C28_Witness ==
    /\ inv.kind = "call" /\ inv.call.cb = OnValue("s3", "g1")
    /\ latest_values["s2"] = [g \in {"g1"} |-> 4]
    /\ latest_values["s3"] = [g \in {"g1"} |-> 4]
    /\ fn_state["s2"] = 8
    /\ fn_state["s3"] = NegInf

\* C29: a Generator has at most one periodic task that was created and has
\* not ended, and that task is the one Generator._task refers to.
C29_OneLiveTask ==
    \A g \in Generators :
        /\ Cardinality(LiveTasks(g)) <= 1
        /\ \A t \in LiveTasks(g) : task[g] = t

\* C30: the id of a Strategy is in the Trader's attachment map exactly when
\* the Trader's callback is in that Strategy's subscriber list.
C30_MapMatchesSubscription ==
    \A s \in Strategies : TAttached(s) <=> OnDecision(s) \in Range(subscribers[s])

\* C31: Generator.stop, from its call to its return, changes neither a
\* subscriber list nor the attachment map or the cache of a Strategy or of the
\* Trader.  So a recomputation of a Strategy that another Generator triggers
\* still uses the latest value of every attached Generator that has notified
\* it, a stopped one included; and the pass of every tick, of a task that a
\* later start() created as of any other, goes over the subscriber list as it
\* is when the tick begins.
C31_StopStep ==
    /\ (awaiting' # awaiting \/ \E g \in Generators : stopped'[g] /\ ~stopped[g]) =>
          /\ subscribers' = subscribers
          /\ generator_unsub' = generator_unsub /\ latest_values' = latest_values
          /\ strategy_unsub' = strategy_unsub /\ latest_decisions' = latest_decisions
    /\ \A g \in Generators, t \in 1..MaxTasks :
          (tstate'[g][t] = "ticking" /\ tstate[g][t] # "ticking") =>
              /\ stack' # <<>> /\ stack'[1].node = g
              /\ stack'[1].snap = subscribers[g]
C31_Contributes ==
    \A i \in DOMAIN stack :
        (i > 1 /\ stack[i].node \in Strategies) =>
            \A g \in stack[i].att \cap DOMAIN stack[i].want :
                /\ g \in DOMAIN stack[i].vals
                /\ stack[i].vals[g] = stack[i].want[g]
C31_StopKeepsPipeline == []C31_Contributes /\ [][C31_StopStep]_vars

\* g1 was started, stopped, started again and stopped again, and holds its
\* last price 8; a tick of g2, of price 4, makes the Strategy decide on the
\* values of both
C31_Witness ==
    /\ stopped["g1"] /\ task["g1"] = NoTask
    /\ tstate["g1"][1] = "done" /\ tstate["g1"][2] = "done"
    /\ price["g1"] = 8
    /\ Len(stack) = 2 /\ stack[1].node = "g2" /\ stack[2].node = "s1"
    /\ stack[2].vals = [g \in Generators |-> IF g = "g1" THEN 8 ELSE 4]
    /\ stack[2].value = 6
    /\ UserCb("u1") \in Range(subscribers["g1"])

\* C32: for one trailing_stop_sell instance of stop distance d >= 0 called with
\* nonempty lists, a call that returns a level and not the sentinel returns a
\* level between current - d and current, current being the maximum of its
\* list.
C32_LevelWithinDistance ==
    LET d == decision_fn[TrailUser].stop_distance
    IN  \A i \in DOMAIN trace :
            (trace[i].who = TrailUser /\ trace[i].ret # NegInf) =>
                /\ trace[i].current - d <= trace[i].ret
                /\ trace[i].ret <= trace[i].current

\* the level has been at each end of the interval: at current - d after the
\* first call, and at current itself after the value fell by the stop distance
C32_Witness ==
    /\ decision_fn[TrailUser] = TrailingFn(StopDistance)
    /\ Len(trace) = 3
    /\ [i \in DOMAIN trace |-> trace[i].current] = <<20, 22, 20>>
    /\ [i \in DOMAIN trace |-> trace[i].ret] = <<18, 20, 20>>
    /\ inv = DirectCall(TrailUser, <<20, 16>>)

====
